---- MODULE Spec2Model ----
(***************************************************************************)
(* TSCNS (src/tscns.h): a nanosecond clock derived from the CPU cycle      *)
(* counter.  The model keeps the program's arithmetic: unsigned words that *)
(* wrap, the cast of a word to a signed word, binary floating point with a *)
(* rounded significand (round to nearest, ties to even, with infinities    *)
(* and NaN), and the truncating conversion of a float to a signed word,    *)
(* which is undefined when the value is not representable.  The widths are *)
(* scaled down (WordBits for 64, MantBits for 53) so that wraparound and   *)
(* rounding happen on values a model checker can enumerate.                *)
(***************************************************************************)
EXTENDS Integers, Sequences, FiniteSets, TLC

\* ------------------------------------------------------------ scaled widths
\* Width of uint64_t / int64_t in the model.
WordBits == 8
\* Significand width of double in the model.
MantBits == 6

RECURSIVE Pow2(_)
Pow2(n) == IF n <= 0 THEN 1 ELSE 2 * Pow2(n - 1)

WordMod == Pow2(WordBits)
IntMax == Pow2(WordBits - 1) - 1
IntMin == 0 - Pow2(WordBits - 1)
Words == 0 .. (WordMod - 1)

\* uint64_t arithmetic: reduction modulo 2^WordBits.
ToWord(i) == i % WordMod
\* (int64_t)w for an unsigned word w: two's complement reinterpretation.
Signed(w) == IF w >= Pow2(WordBits - 1) THEN w - WordMod ELSE w
Abs(i) == IF i < 0 THEN 0 - i ELSE i

\* ------------------------------------------------------------ double
\* A double is a record: kind k ("fin", "inf", "nan"), sign s (1 or -1), and
\* for a finite value the magnitude m * 2^e with m odd (or m = 0, e = 0) and
\* m < 2^MantBits.  The exponent range is not bounded: only division by zero
\* produces an infinity.
Fin(s, m, e) == [k |-> "fin", s |-> s, m |-> m, e |-> e]
Inf(s) == [k |-> "inf", s |-> s, m |-> 0, e |-> 0]
NaN == [k |-> "nan", s |-> 1, m |-> 0, e |-> 0]
Zero(s) == Fin(s, 0, 0)
One == Fin(1, 1, 0)

RECURSIVE Canon(_, _, _)
Canon(s, m, e) ==
  IF m = 0 THEN Zero(s)
  ELSE IF m % 2 = 0 THEN Canon(s, m \div 2, e + 1)
  ELSE Fin(s, m, e)

\* The double nearest to s * (n / d) * 2^e (n >= 0, d > 0), ties to even.
RECURSIVE RoundQ(_, _, _, _)
RoundQ(s, n, d, e) ==
  IF n = 0 THEN Zero(s)
  ELSE IF n < d * Pow2(MantBits - 1) THEN RoundQ(s, 2 * n, d, e - 1)
  ELSE IF n >= d * Pow2(MantBits) THEN RoundQ(s, n, 2 * d, e + 1)
  ELSE LET q == n \div d
           r == n % d
           up == (2 * r > d) \/ (2 * r = d /\ q % 2 = 1)
       IN Canon(s, IF up THEN q + 1 ELSE q, e)

IsFin(a) == a.k = "fin"
IsZero(a) == a.k = "fin" /\ a.m = 0

\* a / b on doubles (IEEE 754 division).
FDiv(a, b) ==
  IF a.k = "nan" \/ b.k = "nan" THEN NaN
  ELSE IF a.k = "inf" THEN (IF b.k = "inf" THEN NaN ELSE Inf(a.s * b.s))
  ELSE IF b.k = "inf" THEN Zero(a.s * b.s)
  ELSE IF b.m = 0 THEN (IF a.m = 0 THEN NaN ELSE Inf(a.s * b.s))
  ELSE RoundQ(a.s * b.s, a.m, b.m, a.e - b.e)

\* a * b on doubles (IEEE 754 multiplication).
FMul(a, b) ==
  IF a.k = "nan" \/ b.k = "nan" THEN NaN
  ELSE IF a.k = "inf" \/ b.k = "inf"
       THEN (IF IsZero(a) \/ IsZero(b) THEN NaN ELSE Inf(a.s * b.s))
  ELSE RoundQ(a.s * b.s, a.m * b.m, 1, a.e + b.e)

\* (double)i for a signed word i.
ItoF(i) == RoundQ(IF i < 0 THEN -1 ELSE 1, Abs(i), 1, 0)

\* a <= 0.0 and a > 0.0 on doubles (both false for NaN).
FLeZero(a) == a.k # "nan" /\ (a.s = -1 \/ IsZero(a))
FGtZero(a) == a.k # "nan" /\ a.s = 1 /\ ~IsZero(a)

\* The integer part of a finite double, when it fits a signed word.
Trunc(a) ==
  IF a.e >= 0 THEN a.s * a.m * Pow2(a.e)
  ELSE IF 0 - a.e >= MantBits THEN 0
  ELSE a.s * (a.m \div Pow2(0 - a.e))
Representable(a) ==
  /\ a.k = "fin"
  /\ a.e < WordBits
  /\ Trunc(a) >= IntMin
  /\ Trunc(a) <= IntMax

\* What an out-of-range (int64_t)double can produce: the x86 "integer
\* indefinite" value, a saturated value, or zero (constant folding).
UBOutcomes == {IntMin, IntMax, 0}

\* (int64_t)a: truncation toward zero; undefined when not representable.
FtoISet(a) == IF Representable(a) THEN {Trunc(a)} ELSE UBOutcomes

\* ------------------------------------------------------------ state
VARIABLES
  tsc_ghz_inv,  \* double: nanoseconds per tick
  ns_offset,    \* uint64_t
  base_tsc,     \* uint64_t
  base_ns,      \* uint64_t
  tsc,          \* the hardware counter (what rdtsc() returns now)
  wall,         \* the wall clock (what rdsysns() returns now)
  last,         \* the operation that completed last, with the fields before it
  lastread,     \* the latest rdns(): its counter reading and result
  dirty,        \* an init or calibrate completed since the latest rdns()
  est,          \* the frequency that established the scale: {} or {f}
  nops,         \* writer operations and elapses so far
  probe,        \* SpecSync: one syncTime run, its readings and its result
  phase,        \* SpecConc: "seq" (writer alone) or "conc" (readers running)
  wpc,          \* SpecConc: the writer's position
  wloc,         \* SpecConc: the writer's locals
  rdr,          \* SpecConc: each reader's position and locals
  snap          \* SpecConc: (offset, scale) when the concurrent write began

fields == <<tsc_ghz_inv, ns_offset, base_tsc, base_ns>>
env == <<tsc, wall>>
hist == <<last, lastread, dirty, est, nops>>
concv == <<phase, wpc, wloc, rdr, snap>>
vars == <<tsc_ghz_inv, ns_offset, base_tsc, base_ns, tsc, wall, last, lastread,
          dirty, est, nops, probe, phase, wpc, wloc, rdr, snap>>

\* ------------------------------------------------------------ syncTime
\* const int N = 10
N == 10

\* The loop of lines 96-99: best after rounds i..N, starting from best.
RECURSIVE bestFrom(_, _, _)
bestFrom(tscs, i, best) ==
  IF i > N THEN best
  ELSE bestFrom(tscs, i + 1,
         IF ToWord(tscs[i] - tscs[i - 1]) < ToWord(tscs[best] - tscs[best - 1])
         THEN i ELSE best)

syncBest(tscs) == bestFrom(tscs, 2, 1)
\* tsc = (tscs[best] + tscs[best - 1]) >> 1: the sum is a uint64_t.
syncTsc(tscs) ==
  LET best == syncBest(tscs)
  IN ToWord(tscs[best] + tscs[best - 1]) \div 2
\* ns = nses[best]
syncNs(tscs, nses) == nses[syncBest(tscs)]

\* ------------------------------------------------------------ arithmetic of the clock
\* (int64_t)((int64_t)x * inv): the outcomes of the conversion.
scaleSet(x, inv) == FtoISet(FMul(ItoF(Signed(x)), inv))

\* Mutant of adjustOffsetSet: the product is added instead of subtracted.
adjustOffsetAdded(bns, btsc, inv) == {ToWord(bns + v) : v \in scaleSet(btsc, inv)}

\* adjustOffset(): ns_offset = base_ns - (int64_t)((int64_t)base_tsc * tsc_ghz_inv)
adjustOffsetSet(bns, btsc, inv) == {ToWord(bns - v) : v \in scaleSet(btsc, inv)}

\* Mutants of tsc2nsSet: the scaled reading is subtracted from the offset;
\* the scale is converted to an integer before the multiplication.
tsc2nsSubtracted(off, inv, t) == {ToWord(off - v) : v \in scaleSet(t, inv)}
tsc2nsScaleTruncated(off, inv, t) == {ToWord(off + Signed(t) * v) : v \in FtoISet(inv)}

\* tsc2ns(tsc): ns_offset + (int64_t)((int64_t)tsc * tsc_ghz_inv)
tsc2nsSet(off, inv, t) == {ToWord(off + v) : v \in scaleSet(t, inv)}

\* Mutant of initReturnsEarly: the test is < instead of <=.
initReturnsEarlyStrict(g) == g.k # "nan" /\ g.s = -1 /\ ~IsZero(g)

\* init: if (tsc_ghz <= 0.0) return;
initReturnsEarly(g) == FLeZero(g)
\* init: tsc_ghz_inv = 1.0 / tsc_ghz
initInv(g) == FDiv(One, g)

\* Mutant of calibrateInv: the deltas are divided without the casts to
\* int64_t.
calibrateInvUnsigned(bns, btsc, dns, dtsc) ==
  FDiv(ItoF(ToWord(dns - bns)), ItoF(ToWord(dtsc - btsc)))

\* calibrate: (double)(int64_t)(delayed_ns - base_ns) / (int64_t)(delayed_tsc - base_tsc)
calibrateInv(bns, btsc, dns, dtsc) ==
  FDiv(ItoF(Signed(ToWord(dns - bns))), ItoF(Signed(ToWord(dtsc - btsc))))
\* calibrate: return 1.0 / tsc_ghz_inv
calibrateRet(inv) == FDiv(One, inv)

\* ------------------------------------------------------------ environment
\* Bounds of the environment the operations run in.
MaxOps == 4
\* Where the counter stands at construction.  SpecRead starts it just below
\* the sign bit of a word, so that readings on both sides of it occur.
TscStarts == {3}
ReadTscStarts == {Pow2(WordBits - 1) - 8}
WallStarts == {50}
\* Time passing between operations: (ticks, nanoseconds).  The wall clock
\* may be stepped backwards (NTP, manual change).
Elapses == {<<30, 10>>, <<11, 5>>, <<1, 60>>, <<9, -4>>}
\* Frequencies a caller passes to init besides one calibrate() returned.
GhzInputs == {Zero(1), Fin(-1, 1, 0), ItoF(3)}
\* The shapes of a probe: the counter advances by d per reading except in
\* round q, where it does not advance.
ProbeShapes == {<<0, 1>>, <<1, N>>}

\* The readings one syncTime run takes: tscs[0..N] from rdtsc(), nses[1..N]
\* from rdsysns().
Readings(d, q) ==
  [tscs |-> [i \in 0 .. N |-> tsc + d * (IF i >= q THEN i - 1 ELSE i)],
   nses |-> [i \in 1 .. N |-> wall + d * (i \div 4)]]
ProbeInputs(shapes) == {Readings(sh[1], sh[2]) : sh \in shapes}

NoRead == [valid |-> FALSE, t |-> 0, r |-> 0]
NoOp ==
  [op |-> "none", g |-> NaN, T |-> 0, N |-> 0, ret |-> NaN,
   inv |-> One, off |-> 0, btsc |-> 0, bns |-> 0, est |-> {},
   prev |-> NoRead, mid |-> FALSE]
\* The record of a completed operation: its argument g, the pair (T, N) its
\* probe returned, what it returned, and the fields (and est) before it.
Done(op, g, T, Ns, ret) ==
  [op |-> op, g |-> g, T |-> T, N |-> Ns, ret |-> ret,
   inv |-> tsc_ghz_inv, off |-> ns_offset, btsc |-> base_tsc, bns |-> base_ns,
   est |-> est, prev |-> NoRead, mid |-> FALSE]

NoProbe == [tscs |-> [i \in 0 .. N |-> 0], nses |-> [i \in 1 .. N |-> 0],
            done |-> FALSE, tsc |-> 0, ns |-> 0]
NoConc ==
  /\ phase = "seq"
  /\ wpc = "idle"
  /\ wloc = [op |-> "none", g |-> NaN, T |-> 0, N |-> 0]
  /\ rdr = <<>>
  /\ snap = [off |-> 0, inv |-> One]

\* The members' default initialisers (lines 106-109).
Fresh ==
  /\ tsc_ghz_inv = One
  /\ ns_offset = 0
  /\ base_tsc = 0
  /\ base_ns = 0

InitAt(starts) ==
  /\ Fresh
  /\ tsc \in starts
  /\ wall \in WallStarts
  /\ last = NoOp
  /\ lastread = NoRead
  /\ dirty = FALSE
  /\ est = {}
  /\ nops = 0
  /\ probe = NoProbe
  /\ NoConc

Init == InitAt(TscStarts)

\* ------------------------------------------------------------ operations
\* void init(double tsc_ghz)
init(g, shapes) ==
  \E rd \in ProbeInputs(shapes) :
    LET T == syncTsc(rd.tscs)
        Ns == syncNs(rd.tscs, rd.nses)
    IN /\ rd.tscs[N] < WordMod
       /\ base_tsc' = T
       /\ base_ns' = Ns
       /\ tsc' = rd.tscs[N]
       /\ wall' = rd.nses[N]
       /\ IF initReturnsEarly(g)
          THEN UNCHANGED <<tsc_ghz_inv, ns_offset, est>>
          ELSE /\ tsc_ghz_inv' = initInv(g)
               /\ ns_offset' \in adjustOffsetSet(Ns, T, initInv(g))
               /\ est' = {g}
       /\ last' = Done("init", g, T, Ns, NaN)
       /\ dirty' = TRUE
       /\ nops' = nops + 1
       /\ UNCHANGED <<lastread, probe, concv>>

\* double calibrate()
calibrate(shapes) ==
  \E rd \in ProbeInputs(shapes) :
    LET dtsc == syncTsc(rd.tscs)
        dns == syncNs(rd.tscs, rd.nses)
        inv == calibrateInv(base_ns, base_tsc, dns, dtsc)
    IN /\ rd.tscs[N] < WordMod
       /\ tsc' = rd.tscs[N]
       /\ wall' = rd.nses[N]
       /\ tsc_ghz_inv' = inv
       /\ ns_offset' \in adjustOffsetSet(base_ns, base_tsc, inv)
       /\ est' = {calibrateRet(inv)}
       /\ last' = Done("calibrate", NaN, dtsc, dns, calibrateRet(inv))
       /\ dirty' = TRUE
       /\ nops' = nops + 1
       /\ UNCHANGED <<base_tsc, base_ns, lastread, probe, concv>>

\* uint64_t rdns(): tsc2ns(rdtsc())
rdns ==
  \E r \in tsc2nsSet(ns_offset, tsc_ghz_inv, tsc) :
    /\ lastread' = [valid |-> TRUE, t |-> tsc, r |-> r]
    /\ last' = [Done("rdns", NaN, tsc, r, NaN) EXCEPT !.prev = lastread, !.mid = dirty]
    /\ dirty' = FALSE
    /\ UNCHANGED <<fields, env, est, nops, probe, concv>>

\* Time passes: the counter advances, the wall clock moves.
Elapse(elapses) ==
  \E el \in elapses :
    /\ tsc + el[1] + N < WordMod
    /\ wall + el[2] >= 0
    /\ wall + el[2] + N < WordMod
    /\ tsc' = tsc + el[1]
    /\ wall' = wall + el[2]
    /\ nops' = nops + 1
    /\ UNCHANGED <<fields, last, lastread, dirty, est, probe, concv>>

\* The writer's operations, one after the other.
DoInit == nops < MaxOps /\ \E g \in GhzInputs \cup est : init(g, ProbeShapes)
DoCalibrate == nops < MaxOps /\ calibrate(ProbeShapes)
DoElapse == nops < MaxOps /\ Elapse(Elapses)

Next == DoInit \/ DoCalibrate \/ DoElapse

Spec == Init /\ [][Next]_vars

\* ------------------------------------------------------------ properties of init and calibrate
AfterCalibrate == last.op = "calibrate"
AfterInit == last.op = "init"
AfterInitPositive == last.op = "init" /\ ~FLeZero(last.g)
\* The signed deltas calibrate divides: second sample minus base.
DeltaNs == Signed(ToWord(last.N - last.bns))
DeltaTsc == Signed(ToWord(last.T - last.btsc))
\* (double)base_tsc * tsc_ghz_inv, the product adjustOffset converts.
BaseProduct == FMul(ItoF(Signed(base_tsc)), tsc_ghz_inv)

\* C2: re-sync preserves the scale.  After init(f), where f is the positive
\* finite frequency that established the scale (calibrate() returned it, or
\* an earlier init(f) took it), tsc_ghz_inv equals its value before the call.
C2_ResyncPreservesScale ==
  (AfterInit /\ last.est = {last.g} /\ IsFin(last.g) /\ FGtZero(last.g))
    => tsc_ghz_inv = last.inv

\* C4: after calibrate() whose probe returned a tick value different from
\* base_tsc, tsc_ghz_inv is the (rounded) signed ratio of the nanosecond delta
\* to the tick delta and the return value is its (rounded) reciprocal; when
\* the tick delta is three times a positive nanosecond delta (both exact as
\* doubles) the call returns 3 and leaves the scale at the double nearest 1/3.
C4_CalibrateRecoversFrequency ==
  (AfterCalibrate /\ last.T # last.btsc) =>
    /\ tsc_ghz_inv = FDiv(ItoF(DeltaNs), ItoF(DeltaTsc))
    /\ last.ret = FDiv(One, tsc_ghz_inv)
    /\ (DeltaNs > 0 /\ DeltaTsc = 3 * DeltaNs /\ DeltaTsc < Pow2(MantBits)) =>
         /\ last.ret = Fin(1, 3, 0)
         /\ tsc_ghz_inv = RoundQ(1, 1, 3, 0)

\* A calibrate() that saw three ticks per nanosecond has completed.
C4_Witness ==
  /\ AfterCalibrate
  /\ DeltaNs > 0
  /\ DeltaTsc = 3 * DeltaNs
  /\ last.ret = Fin(1, 3, 0)

AnchorRecoveryWhenRepresentable ==
  /\ AfterCalibrate => (base_tsc = last.btsc /\ base_ns = last.bns)
  /\ ((AfterCalibrate \/ AfterInitPositive) /\ Representable(BaseProduct)) =>
       tsc2nsSet(ns_offset, tsc_ghz_inv, base_tsc) = {base_ns}

\* C6: the scale is 1.0 until something establishes it, and strictly
\* positive after any calibrate().
C6_ScalePositive ==
  /\ est = {} => tsc_ghz_inv = One
  /\ AfterCalibrate => FGtZero(tsc_ghz_inv)

\* C9 as stated: after every completed init() or calibrate(), ns_offset is
\* base_ns minus the converted product base_tsc * tsc_ghz_inv.
C9_OffsetConsistent ==
  (AfterInit \/ AfterCalibrate) =>
    \E v \in FtoISet(BaseProduct) : ns_offset = ToWord(base_ns - v)

\* C9 amended: the offset is recomputed by calibrate() and by init(g) with
\* g > 0 (the truncated product when it fits a signed word), and init(g) with
\* g <= 0 leaves ns_offset as it was.
C9_OffsetConsistentAmended ==
  /\ (AfterCalibrate \/ AfterInitPositive) =>
       /\ \E v \in FtoISet(BaseProduct) : ns_offset = ToWord(base_ns - v)
       /\ Representable(BaseProduct) =>
            ns_offset = ToWord(base_ns - Trunc(BaseProduct))
  /\ (AfterInit /\ FLeZero(last.g)) => ns_offset = last.off

\* An init(g > 0) moved the base pair and recomputed a non-zero offset from a
\* representable product.
C9_Witness ==
  /\ AfterInitPositive
  /\ Representable(BaseProduct)
  /\ base_tsc # last.btsc
  /\ ns_offset # last.off
  /\ ns_offset = ToWord(base_ns - Trunc(BaseProduct))

\* C10: init(g) with g <= 0 replaces base_tsc and base_ns by its probe and
\* writes neither tsc_ghz_inv nor ns_offset; until a calibrate() or an
\* init(g > 0) has run the scale is the default 1.0.
C10_UncalibratedInit ==
  /\ (AfterInit /\ FLeZero(last.g)) =>
       /\ base_tsc = last.T
       /\ base_ns = last.N
       /\ tsc_ghz_inv = last.inv
       /\ ns_offset = last.off
  /\ est = {} => tsc_ghz_inv = One

\* An init(g <= 0) on a never calibrated clock replaced the base pair.
C10_Witness ==
  /\ AfterInit
  /\ FLeZero(last.g)
  /\ est = {}
  /\ base_tsc # last.btsc
  /\ base_ns # last.bns
  /\ tsc_ghz_inv = One

\* ------------------------------------------------------------ reads between writer operations
\* Writer operations and elapses between which the reads fall; a read does
\* not count.
MaxReadOps == 4
ReadGhz == {Zero(1), ItoF(3)}
ReadShapes == {<<0, 1>>}
ReadElapses == {<<30, 10>>, <<11, 5>>, <<9, -4>>}

RdInit == nops < MaxReadOps /\ \E g \in ReadGhz : init(g, ReadShapes)
RdCalibrate == nops < MaxReadOps /\ calibrate(ReadShapes)
RdRead == rdns
RdElapse == nops < MaxReadOps /\ Elapse(ReadElapses)

NextRead == RdInit \/ RdCalibrate \/ RdRead \/ RdElapse

InitRead == InitAt(ReadTscStarts)

SpecRead == InitRead /\ [][NextRead]_vars

\* Two rdns() calls, one after the other: the earlier (t1, r1) and the later
\* (t2, r2).
TwoReads == last.op = "rdns" /\ last.prev.valid
ReadProduct(t) == FMul(ItoF(Signed(t)), tsc_ghz_inv)

\* C7 as stated: of two rdns() calls made one after the other with counter
\* readings t1 <= t2, the second result is >= the first, whatever init and
\* calibrate calls ran before or between them.
C7_MonotonicReads ==
  (TwoReads /\ last.prev.t <= last.T) => last.N >= last.prev.r

\* C7 amended: with no init or calibrate between the two reads, a finite
\* scale that is not negative, readings t1 <= t2 on the same side of the sign
\* bit and products that fit a signed word, the results differ (modulo the
\* word) by trunc(t2 * scale) - trunc(t1 * scale) >= 0; so the second result
\* is >= the first unless the sum wraps around the word.
C7_MonotonicReadsAmended ==
  ( /\ TwoReads
    /\ ~last.mid
    /\ IsFin(tsc_ghz_inv)
    /\ (tsc_ghz_inv.s = 1 \/ IsZero(tsc_ghz_inv))
    /\ Signed(last.prev.t) <= Signed(last.T)
    /\ Representable(ReadProduct(last.prev.t))
    /\ Representable(ReadProduct(last.T)) ) =>
    LET x1 == Trunc(ReadProduct(last.prev.t))
        x2 == Trunc(ReadProduct(last.T))
    IN /\ x1 <= x2
       /\ ToWord(last.N - last.prev.r) = x2 - x1
       /\ (last.prev.r + (x2 - x1) < WordMod) => last.N >= last.prev.r

\* Two reads with time passing between them and no writer in between, the
\* later result strictly larger.
C7_Witness ==
  /\ TwoReads
  /\ ~last.mid
  /\ IsFin(tsc_ghz_inv)
  /\ tsc_ghz_inv.s = 1
  /\ last.prev.t < last.T
  /\ Signed(last.prev.t) <= Signed(last.T)
  /\ Representable(ReadProduct(last.prev.t))
  /\ Representable(ReadProduct(last.T))
  /\ last.N > last.prev.r

\* ------------------------------------------------------------ syncTime on its own
\* The counter advances by 0 .. MaxDelta between two readings of one probe.
MaxDelta == 1
\* First readings: low, around the sign bit of a word, and near the top.
SyncStarts == {5, Pow2(WordBits - 1) - 4, WordMod - 1 - N * MaxDelta}
DeltaSeqs == [1 .. N -> 0 .. MaxDelta]

RECURSIVE SumTo(_, _)
SumTo(ds, i) == IF i = 0 THEN 0 ELSE ds[i] + SumTo(ds, i - 1)

\* Non-decreasing counter readings that do not wrap, and wall-clock readings.
SyncInputs ==
  {[tscs |-> [i \in 0 .. N |-> s0 + SumTo(ds, i)],
    nses |-> [i \in 1 .. N |-> 100 + i],
    done |-> FALSE, tsc |-> 0, ns |-> 0] : s0 \in SyncStarts, ds \in DeltaSeqs}

InitSync ==
  /\ Fresh
  /\ tsc = 0
  /\ wall = 0
  /\ last = NoOp
  /\ lastread = NoRead
  /\ dirty = FALSE
  /\ est = {}
  /\ nops = 0
  /\ NoConc
  /\ probe \in SyncInputs

\* void syncTime(uint64_t& tsc, uint64_t& ns) on the readings of probe.
syncTime ==
  /\ ~probe.done
  /\ probe' = [probe EXCEPT !.done = TRUE,
                            !.tsc = syncTsc(probe.tscs),
                            !.ns = syncNs(probe.tscs, probe.nses)]
  /\ UNCHANGED <<fields, env, hist, concv>>

NextSync == syncTime

SpecSync == InitSync /\ [][NextSync]_vars

\* The adjacent delta of round i, and the lowest round with the least delta.
RoundDelta(i) == probe.tscs[i] - probe.tscs[i - 1]
LeastRound ==
  CHOOSE i \in 1 .. N :
    /\ \A j \in 1 .. N : RoundDelta(i) <= RoundDelta(j)
    /\ \A j \in 1 .. (i - 1) : RoundDelta(j) > RoundDelta(i)

\* C8: syncTime returns the wall-clock reading of the lowest round whose
\* adjacent counter delta is least, and the midpoint of that round's two
\* counter readings, which lies between them.
C8_SyncProbeSelection ==
  probe.done =>
    /\ probe.ns = probe.nses[LeastRound]
    /\ probe.tsc = (probe.tscs[LeastRound] + probe.tscs[LeastRound - 1]) \div 2
    /\ probe.tscs[LeastRound - 1] <= probe.tsc
    /\ probe.tsc <= probe.tscs[LeastRound]

\* The selection is always the lowest least round; the midpoint is right
\* whenever the sum of the two readings fits a word.
SyncSelectionWhenSumFits ==
  probe.done =>
    /\ probe.ns = probe.nses[LeastRound]
    /\ syncBest(probe.tscs) = LeastRound
    /\ (probe.tscs[LeastRound] + probe.tscs[LeastRound - 1] < WordMod) =>
         /\ probe.tsc = (probe.tscs[LeastRound] + probe.tscs[LeastRound - 1]) \div 2
         /\ probe.tscs[LeastRound - 1] <= probe.tsc
         /\ probe.tsc <= probe.tscs[LeastRound]

\* ------------------------------------------------------------ one writer, concurrent readers
\* Readers running tsc2ns() while the writer runs one init or calibrate.
NReaders == 1
ConcGhz == {Zero(1), ItoF(3)}
ConcShapes == {<<0, 1>>}
ConcElapses == {<<30, 10>>, <<11, 5>>, <<9, -4>>}
\* Counter values the readers convert: the current reading, or a later one.
ConcTscs == {tsc, tsc + 3, tsc + 30}

IdleReader == [pc |-> "idle", t |-> 0, first |-> "none", off |-> 0, inv |-> One, res |-> 0]

\* The writer alone (the documented life cycle): init, a wait, calibrate, a
\* wait.
CcInit == phase = "seq" /\ nops = 0 /\ \E g \in ConcGhz : init(g, ConcShapes)
CcElapse == phase = "seq" /\ nops \in {1, 3} /\ Elapse(ConcElapses)
CcCalibrate ==
  phase = "seq" /\ nops \in {1, 2} /\ last.op # "calibrate" /\ calibrate(ConcShapes)

\* The readers start; the writer begins a re-sync: init(g) with the frequency
\* that established the scale.
StartResync ==
  /\ phase = "seq"
  /\ \E g \in est :
       wloc' = [op |-> "init", g |-> g, T |-> 0, N |-> 0]
  /\ phase' = "conc"
  /\ wpc' = "sync"
  /\ rdr' = [i \in 1 .. NReaders |-> IdleReader]
  /\ snap' = [off |-> ns_offset, inv |-> tsc_ghz_inv]
  /\ UNCHANGED <<fields, env, hist, probe>>

\* The readers start; the writer begins calibrate().
StartCalibrate ==
  /\ phase = "seq"
  /\ nops >= 1
  /\ wloc' = [op |-> "calibrate", g |-> NaN, T |-> 0, N |-> 0]
  /\ phase' = "conc"
  /\ wpc' = "sync"
  /\ rdr' = [i \in 1 .. NReaders |-> IdleReader]
  /\ snap' = [off |-> ns_offset, inv |-> tsc_ghz_inv]
  /\ UNCHANGED <<fields, env, hist, probe>>

\* syncTime runs.  In init it ends by storing base_tsc (line 100); in
\* calibrate it fills the locals delayed_tsc and delayed_ns.
WriterSync ==
  /\ phase = "conc"
  /\ wpc = "sync"
  /\ \E rd \in ProbeInputs(ConcShapes) :
       /\ rd.tscs[N] < WordMod
       /\ tsc' = rd.tscs[N]
       /\ wall' = rd.nses[N]
       /\ wloc' = [wloc EXCEPT !.T = syncTsc(rd.tscs), !.N = syncNs(rd.tscs, rd.nses)]
       /\ IF wloc.op = "init"
          THEN base_tsc' = syncTsc(rd.tscs) /\ wpc' = "base_ns"
          ELSE UNCHANGED base_tsc /\ wpc' = "inv"
  /\ UNCHANGED <<tsc_ghz_inv, ns_offset, base_ns, hist, probe, phase, rdr, snap>>

\* init: syncTime stores base_ns (line 101); then if (tsc_ghz <= 0.0) return.
WriterBaseNs ==
  /\ phase = "conc"
  /\ wpc = "base_ns"
  /\ base_ns' = wloc.N
  /\ wpc' = IF initReturnsEarly(wloc.g) THEN "done" ELSE "inv"
  /\ UNCHANGED <<tsc_ghz_inv, ns_offset, base_tsc, env, hist, probe, phase, wloc, rdr, snap>>

\* The store to tsc_ghz_inv (line 47 in init, line 54 in calibrate).
WriterInv ==
  /\ phase = "conc"
  /\ wpc = "inv"
  /\ tsc_ghz_inv' = IF wloc.op = "init" THEN initInv(wloc.g)
                    ELSE calibrateInv(base_ns, base_tsc, wloc.N, wloc.T)
  /\ wpc' = "off"
  /\ UNCHANGED <<ns_offset, base_tsc, base_ns, env, hist, probe, phase, wloc, rdr, snap>>

\* adjustOffset(): the store to ns_offset (line 104).
WriterOff ==
  /\ phase = "conc"
  /\ wpc = "off"
  /\ ns_offset' \in adjustOffsetSet(base_ns, base_tsc, tsc_ghz_inv)
  /\ wpc' = "done"
  /\ UNCHANGED <<tsc_ghz_inv, base_tsc, base_ns, env, hist, probe, phase, wloc, rdr, snap>>

\* tsc2ns (line 67), first load: the operands of + are read in either order.
ReadFirst(i) ==
  /\ phase = "conc"
  /\ rdr[i].pc = "idle"
  /\ \E t \in ConcTscs, f \in {"off", "inv"} :
       /\ t < WordMod
       /\ rdr' = [rdr EXCEPT ![i] =
                    [pc |-> "half", t |-> t, first |-> f,
                     off |-> IF f = "off" THEN ns_offset ELSE 0,
                     inv |-> IF f = "inv" THEN tsc_ghz_inv ELSE One,
                     res |-> 0]]
  /\ UNCHANGED <<fields, env, hist, probe, phase, wpc, wloc, snap>>

\* tsc2ns (line 67), second load and the result.
ReadSecond(i) ==
  /\ phase = "conc"
  /\ rdr[i].pc = "half"
  /\ LET off == IF rdr[i].first = "off" THEN rdr[i].off ELSE ns_offset
         inv == IF rdr[i].first = "inv" THEN rdr[i].inv ELSE tsc_ghz_inv
     IN \E r \in tsc2nsSet(off, inv, rdr[i].t) :
          rdr' = [rdr EXCEPT ![i] =
                    [pc |-> "ret", t |-> rdr[i].t, first |-> rdr[i].first,
                     off |-> off, inv |-> inv, res |-> r]]
  /\ UNCHANGED <<fields, env, hist, probe, phase, wpc, wloc, snap>>

ReaderStep == \E i \in 1 .. NReaders : ReadFirst(i) \/ ReadSecond(i)

NextConc ==
  \/ CcInit
  \/ CcElapse
  \/ CcCalibrate
  \/ StartResync
  \/ StartCalibrate
  \/ WriterSync
  \/ WriterBaseNs
  \/ WriterInv
  \/ WriterOff
  \/ ReaderStep

SpecConc == Init /\ [][NextConc]_vars

\* ------------------------------------------------------------ properties of concurrent reads
ResyncDone == phase = "conc" /\ wloc.op = "init" /\ wpc = "done"
CalibrateDone == phase = "conc" /\ wloc.op = "calibrate" /\ wpc = "done"
Returned(i) == rdr[i].pc = "ret"
\* The conversions of t under the pair before the write and the pair after.
PreSet(t) == tsc2nsSet(snap.off, snap.inv, t)
PostSet(t) == tsc2nsSet(ns_offset, tsc_ghz_inv, t)
\* The reader combined one field from before the write with one from after.
Torn(i) ==
  /\ <<rdr[i].off, rdr[i].inv>> # <<snap.off, snap.inv>>
  /\ <<rdr[i].off, rdr[i].inv>> # <<ns_offset, tsc_ghz_inv>>

\* C1: a re-sync, init(f) with the positive finite frequency f that
\* established the scale, is safe under concurrent readers: every reader's
\* result is the conversion of its counter value under the (offset, scale)
\* pair before the re-sync or under the pair after it.
C1_ResyncReaderSafe ==
  (ResyncDone /\ IsFin(wloc.g) /\ FGtZero(wloc.g)) =>
    \A i \in 1 .. NReaders :
      Returned(i) => rdr[i].res \in PreSet(rdr[i].t) \cup PostSet(rdr[i].t)

\* The second sentence of C1: no reader computes with a scale other than the
\* one established before the re-sync.
ResyncReadersSeeEstablishedScale ==
  (ResyncDone /\ IsFin(wloc.g) /\ FGtZero(wloc.g)) =>
    \A i \in 1 .. NReaders : Returned(i) => rdr[i].inv = snap.inv

\* A re-sync that writes back the very scale it found is safe: every result
\* is the conversion under the pair before or the pair after.
ResyncSafeWhenScaleKept ==
  (ResyncDone /\ tsc_ghz_inv = snap.inv) =>
    \A i \in 1 .. NReaders :
      Returned(i) =>
        /\ rdr[i].res \in PreSet(rdr[i].t) \cup PostSet(rdr[i].t)
        /\ rdr[i].inv = snap.inv

\* C3: calibrate() is not reader-safe.  It stores tsc_ghz_inv and then
\* ns_offset; a reader's result is the conversion under a scale and an offset
\* each taken from before or after, a result that is the conversion under
\* neither the pair before nor the pair after comes from a torn pair, and a
\* reader that took the new scale with the old offset is off the conversion
\* before by trunc(t * new scale) - trunc(t * old scale).
C3_CalibrateNotReaderSafe ==
  CalibrateDone =>
    \A i \in 1 .. NReaders :
      Returned(i) =>
        /\ rdr[i].off \in {snap.off, ns_offset}
        /\ rdr[i].inv \in {snap.inv, tsc_ghz_inv}
        /\ rdr[i].res \in tsc2nsSet(rdr[i].off, rdr[i].inv, rdr[i].t)
        /\ (rdr[i].res \notin PreSet(rdr[i].t) \cup PostSet(rdr[i].t)) => Torn(i)
        /\ ( /\ rdr[i].off = snap.off
             /\ rdr[i].inv = tsc_ghz_inv
             /\ Representable(FMul(ItoF(Signed(rdr[i].t)), snap.inv))
             /\ Representable(FMul(ItoF(Signed(rdr[i].t)), tsc_ghz_inv)) ) =>
             ToWord(rdr[i].res - ToWord(snap.off + Trunc(FMul(ItoF(Signed(rdr[i].t)), snap.inv))))
               = ToWord(Trunc(FMul(ItoF(Signed(rdr[i].t)), tsc_ghz_inv))
                        - Trunc(FMul(ItoF(Signed(rdr[i].t)), snap.inv)))

\* A reader overlapped calibrate(), took the new scale with the old offset,
\* and returned a result that is the conversion under neither pair.
C3_Witness ==
  /\ CalibrateDone
  /\ \E i \in 1 .. NReaders :
       /\ Returned(i)
       /\ rdr[i].off = snap.off
       /\ rdr[i].inv = tsc_ghz_inv
       /\ tsc_ghz_inv # snap.inv
       /\ IsFin(tsc_ghz_inv)
       /\ FGtZero(tsc_ghz_inv)
       /\ rdr[i].res \notin PreSet(rdr[i].t) \cup PostSet(rdr[i].t)

====
